---- MODULE Spec2Model ----
(***************************************************************************)
(* Model of the landscape image data pipeline: the cleaning run of         *)
(* clean.py (load, analyze, dedup, validate, enhance, save, report,        *)
(* summary) followed by the database load of load_sqlite.py.               *)
(*                                                                         *)
(* A Python dict is a TLA+ function whose DOMAIN is the set of keys the    *)
(* dict holds, so "key in d" is "key \in DOMAIN d".  The records loaded    *)
(* from JSON are objects on a heap; the Python lists raw_data,             *)
(* unique_data, valid_data and cleaned_data hold references to them        *)
(* (indices into the heap), because enhance_metadata mutates the objects   *)
(* in place.  Floats that are printed or stored rounded are integers in    *)
(* the unit of the last kept digit (a percentage with one decimal is a     *)
(* number of tenths).                                                      *)
(***************************************************************************)
EXTENDS Integers, Sequences, FiniteSets, TLC

\* Longest input batch explored.
MaxLen == 3

\* Python's None (JSON null) for the string-valued fields.
None == "<None>"

MIN_WIDTH == 1920

\* MIN_ASPECT_RATIO is 1.3 = MIN_RATIO_NUM / MIN_RATIO_DEN.
MIN_RATIO_NUM == 13

MIN_RATIO_DEN == 10

REQUIRED_FIELDS == <<"id", "image_url", "photographer_name", "width", "height">>

\* The fields of a record that hold integers; the others hold strings
\* (description: a sequence of characters).
IntFields == {"downloaded", "width", "height", "aspect_ratio", "megapixels"}

(***************************************************************************)
(* State                                                                   *)
(***************************************************************************)
VARIABLES
    raw_file,          \* data/raw_metadata.json: the list of records in it
    cleaned_file,      \* data/cleaned_metadata.json: [exists, data]
    report_file,       \* data/cleaning_report.txt: [exists, ...the numbers in it]
    pc,                \* where main of clean.py is
    err,               \* the exception that ended main of clean.py, or ""
    stages,            \* the steps of main of clean.py that returned, in order
    heap,              \* the record objects json.load created
    raw_data,          \* references, as are the next three
    unique_data,
    valid_data,
    cleaned_data,
    stats,             \* what analyze_data returned
    validation_stats,  \* the counters validate_images returned
    duplicates_removed,\* the count remove_duplicates printed
    printed,           \* percentages printed so far (tenths of a percent)
    summary,           \* the final summary main printed: [printed, ...]
    lpc,               \* where main of load_sqlite.py is
    lerr,              \* the exception that ended it, or ""
    rows,              \* the identities of the rows of the images table
    rows_before,       \* the rows when insert_images was called
    batch,             \* what load_cleaned_data returned
    inserted, skipped, attempted,
    rerun,             \* a second validate_images over the same list: [done, ...]
    xpc,               \* which function of ingest.py is called, or has returned
    text_arg,          \* the argument of extract_location_from_text
    image_data,        \* the argument of extract_location
    extracted,         \* the (location_name, country) returned
    xerr,              \* the exception the call raised, or ""
    images,            \* the images table as api.py reads it: a set of rows
    responses,         \* what each endpoint of api.py answered, or NoResponse
    ipc,               \* where main of ingest.py is
    ierr,              \* the exception that ended it, or ""
    searched,          \* the queries fetch_images was called with, in order
    remaining,         \* the images of the fetched page not yet processed
    all_metadata,      \* the metadata records collected so far
    images_downloaded, \* the counter of main of ingest.py
    metadata_file      \* data/raw_metadata.json as ingest.py wrote it: [exists, data]

(***************************************************************************)
(* Input universe                                                          *)
(***************************************************************************)
\* A messy description: leading, doubled and trailing whitespace.
Messy == <<" ", "x", " ", " ", "y", " ">>

\* A record body without its id.  2600x2000 is exactly the minimum ratio.
Base ==
    [downloaded |-> 1, width |-> 2600, height |-> 2000, image_url |-> "u",
     photographer_name |-> "p", location_name |-> "L", country |-> "C",
     description |-> Messy]

Profiles ==
    { Base,
      \* exactly the minimum width, no location data
      [Base EXCEPT !.width = 1920, !.height = 1080, !.location_name = None,
                   !.country = None, !.description = <<>>],
      \* not downloaded, and portrait, and narrow
      [Base EXCEPT !.downloaded = 0, !.width = 1000, !.height = 2000],
      \* portrait and narrow
      [Base EXCEPT !.width = 1000, !.height = 2000, !.location_name = None],
      \* near-square (ratio 1.125) and narrow
      [Base EXCEPT !.width = 1800, !.height = 1600, !.country = None],
      \* narrow and without image_url
      [Base EXCEPT !.width = 1800, !.height = 1000, !.image_url = ""],
      \* only image_url missing
      [Base EXCEPT !.image_url = ""],
      \* height 0: passes the orientation gate, ratio is taken as 0
      [Base EXCEPT !.height = 0, !.description = <<>>] }

WithId(p, i) == ("id" :> i) @@ p

Records ==
    { WithId(p, "a") : p \in Profiles }
      \cup { WithId(Base, "b"),
             WithId([Base EXCEPT !.width = 1920, !.height = 1080], "b"),
             WithId([Base EXCEPT !.width = 1000, !.height = 2000], "b") }
      \cup { WithId(Base, ""),   \* an empty identity
             Base }              \* no identity key at all

RECURSIVE SeqsUpTo(_, _)
SeqsUpTo(S, n) ==
    IF n = 0 THEN { <<>> }
    ELSE LET shorter == SeqsUpTo(S, n - 1)
         IN  shorter \cup { Append(s, x) : s \in { t \in shorter : Len(t) = n - 1 }, x \in S }

Inputs == SeqsUpTo(Records, MaxLen)

\* What the images table may hold from an earlier run (row identities).
PriorStores == { <<>>, <<"a">> }

(***************************************************************************)
(* Python helpers                                                          *)
(***************************************************************************)
\* dict.get(key, default)
Get(item, key, default) == IF key \in DOMAIN item THEN item[key] ELSE default

\* bool(item.get(key)): the key is present and its value is not 0, "",
\* None or empty.
Truthy(item, key) ==
    /\ key \in DOMAIN item
    /\ IF key \in IntFields THEN item[key] # 0
       ELSE IF key = "description" THEN item[key] # <<>>
       ELSE item[key] \notin {"", None}

Range(s) == { s[i] : i \in DOMAIN s }

Min(a, b) == IF a < b THEN a ELSE b

\* sum(1 for d in data if d.get(key)) over a list of references
CountTruthy(h, data, key) ==
    Cardinality({ i \in DOMAIN data : Truthy(h[data[i]], key) })

\* Round n/d (n >= 0, d > 0) to the nearest integer, ties to even.
RoundHalfEven(n, d) ==
    LET q == n \div d
        r == n % d
    IN  IF 2 * r < d THEN q
        ELSE IF 2 * r > d THEN q + 1
        ELSE IF q % 2 = 0 THEN q ELSE q + 1

\* f"{n/total*100:.1f}" as a number of tenths of a percent (total > 0).
Pct(n, total) == RoundHalfEven(1000 * n, total)

(***************************************************************************)
(* clean.py: the pure parts of each stage                                  *)
(***************************************************************************)
\* [d[key] for d in data if key in d]
ValuesOf(h, data, key) ==
    LET RECURSIVE go(_)
        go(rest) ==
            IF rest = <<>> THEN <<>>
            ELSE IF key \in DOMAIN h[Head(rest)]
                 THEN <<h[Head(rest)][key]>> \o go(Tail(rest))
                 ELSE go(Tail(rest))
    IN  go(data)

\* The positions of zip(widths, heights)
Zip(widths, heights) == 1..Min(Len(widths), Len(heights))

\* analyze_data: the statistics it returns, the percentages it prints, and
\* the exception it raises ("" when it returns).  The divisions by total
\* (lines 50-56) come first, then the averages over widths and heights
\* (lines 61-62), then d['id'] for every record (line 65).
analyze_data(h, data) ==
    LET total == Len(data)
        item(r) == h[r]
        with_location == CountTruthy(h, data, "location_name")
        with_country == CountTruthy(h, data, "country")
        with_description == CountTruthy(h, data, "description")
        downloaded ==
            Cardinality({ i \in DOMAIN data : Get(item(data[i]), "downloaded", 0) = 1 })
        widths == ValuesOf(h, data, "width")
        heights == ValuesOf(h, data, "height")
        landscape_count ==
            Cardinality({ i \in Zip(widths, heights) : widths[i] > heights[i] })
        portrait_count ==
            Cardinality({ i \in Zip(widths, heights) : widths[i] < heights[i] })
        has_id(r) == "id" \in DOMAIN item(r)
        ids == { item(data[i])["id"] : i \in { j \in DOMAIN data : has_id(data[j]) } }
        duplicate_ids ==
            { id \in ids :
                Cardinality({ i \in DOMAIN data :
                                has_id(data[i]) /\ item(data[i])["id"] = id }) > 1 }
        raised ==
            IF total = 0 THEN "ZeroDivisionError"
            ELSE IF Len(widths) = 0 \/ Len(heights) = 0 THEN "ZeroDivisionError"
            ELSE IF \E i \in DOMAIN data : ~has_id(data[i]) THEN "KeyError"
            ELSE ""
        percentages ==
            IF total = 0 THEN <<>>
            ELSE [with_location |-> Pct(with_location, total),
                  with_country |-> Pct(with_country, total),
                  with_description |-> Pct(with_description, total),
                  landscape |-> Pct(landscape_count, total),
                  portrait |-> Pct(portrait_count, total)]
    IN  [raised |-> raised,
         printed |-> percentages,
         stats |-> [total |-> total,
                    downloaded |-> downloaded,
                    duplicates |-> Cardinality(duplicate_ids),
                    duplicate_ids |-> duplicate_ids,
                    landscape_count |-> landscape_count,
                    portrait_count |-> portrait_count]]

\* dedup_step without seen_ids.add: no identity is ever remembered.
dedup_step_forgets(h, st, ref) ==
    IF st.raised # "" THEN st
    ELSE IF "id" \notin DOMAIN h[ref] THEN [st EXCEPT !.raised = "KeyError"]
    ELSE IF h[ref]["id"] \notin st.seen_ids
         THEN [st EXCEPT !.unique_data = Append(@, ref)]
         ELSE [st EXCEPT !.duplicates_removed = @ + 1]

\* One iteration of the loop of remove_duplicates (lines 108-113).
dedup_step(h, st, ref) ==
    IF st.raised # "" THEN st
    ELSE IF "id" \notin DOMAIN h[ref] THEN [st EXCEPT !.raised = "KeyError"]
    ELSE IF h[ref]["id"] \notin st.seen_ids
         THEN [st EXCEPT !.seen_ids = @ \cup {h[ref]["id"]},
                         !.unique_data = Append(@, ref)]
         ELSE [st EXCEPT !.duplicates_removed = @ + 1]

\* dedup_loop keeping, for a repeated identity, the record seen last in the
\* place of the one seen first (as a dict keyed by identity would).
RECURSIVE dedup_loop_keeps_last(_, _, _)
dedup_loop_keeps_last(h, st, rest) ==
    IF rest = <<>> THEN st
    ELSE LET ref == Head(rest)
             same(r) == h[r]["id"] = h[ref]["id"]
             next == IF "id" \notin DOMAIN h[ref] THEN [st EXCEPT !.raised = "KeyError"]
                     ELSE IF h[ref]["id"] \notin st.seen_ids
                          THEN dedup_step(h, st, ref)
                          ELSE [st EXCEPT
                                  !.unique_data =
                                      [k \in DOMAIN @ |-> IF same(@[k]) THEN ref ELSE @[k]],
                                  !.duplicates_removed = @ + 1]
         IN  dedup_loop_keeps_last(h, next, Tail(rest))

RECURSIVE dedup_loop(_, _, _)
dedup_loop(h, st, rest) ==
    IF rest = <<>> THEN st
    ELSE dedup_loop(h, dedup_step(h, st, Head(rest)), Tail(rest))

\* remove_duplicates that removes nothing.
remove_duplicates_skipped(h, data) ==
    [seen_ids |-> {}, unique_data |-> data, duplicates_removed |-> 0, raised |-> ""]

\* remove_duplicates: one pass with a set of seen identities.
remove_duplicates(h, data) ==
    dedup_loop(h,
               [seen_ids |-> {}, unique_data |-> <<>>, duplicates_removed |-> 0,
                raised |-> ""],
               data)

\* gate with the resolution rule tried before the orientation rule.
gate_resolution_first(item) ==
    LET width == Get(item, "width", 0)
        height == Get(item, "height", 0)
    IN  IF Get(item, "downloaded", 0) # 1 THEN "failed_download"
        ELSE IF width < MIN_WIDTH THEN "failed_resolution"
        ELSE IF width <= height THEN "failed_orientation"
        ELSE IF (IF height > 0
                 THEN MIN_RATIO_DEN * width < MIN_RATIO_NUM * height
                 ELSE TRUE)
             THEN "failed_aspect_ratio"
        ELSE IF ~(\A k \in DOMAIN REQUIRED_FIELDS : Truthy(item, REQUIRED_FIELDS[k]))
             THEN "failed_missing_fields"
        ELSE "passed"

\* gate with any() for all() in the required-fields rule.
gate_any_required(item) ==
    LET width == Get(item, "width", 0)
        height == Get(item, "height", 0)
    IN  IF Get(item, "downloaded", 0) # 1 THEN "failed_download"
        ELSE IF width <= height THEN "failed_orientation"
        ELSE IF (IF height > 0
                 THEN MIN_RATIO_DEN * width < MIN_RATIO_NUM * height
                 ELSE TRUE)
             THEN "failed_aspect_ratio"
        ELSE IF width < MIN_WIDTH THEN "failed_resolution"
        ELSE IF ~(\E k \in DOMAIN REQUIRED_FIELDS : Truthy(item, REQUIRED_FIELDS[k]))
             THEN "failed_missing_fields"
        ELSE "passed"

\* The gates of validate_images for one record (lines 142-173): the name of
\* the counter the record increments, or "passed".
\* gate letting a height that is not positive through its ratio check.
gate_ratio_skipped_without_height(item) ==
    LET width == Get(item, "width", 0)
        height == Get(item, "height", 0)
    IN  IF Get(item, "downloaded", 0) # 1 THEN "failed_download"
        ELSE IF width <= height THEN "failed_orientation"
        ELSE IF (IF height > 0
                 THEN MIN_RATIO_DEN * width < MIN_RATIO_NUM * height
                 ELSE FALSE)
             THEN "failed_aspect_ratio"
        ELSE IF width < MIN_WIDTH THEN "failed_resolution"
        ELSE IF ~(\A k \in DOMAIN REQUIRED_FIELDS : Truthy(item, REQUIRED_FIELDS[k]))
             THEN "failed_missing_fields"
        ELSE "passed"

gate(item) ==
    LET width == Get(item, "width", 0)
        height == Get(item, "height", 0)
    IN  IF Get(item, "downloaded", 0) # 1 THEN "failed_download"
        ELSE IF width <= height THEN "failed_orientation"
        \* aspect_ratio = width / height if height > 0 else 0; aspect_ratio < 1.3
        ELSE IF (IF height > 0
                 THEN MIN_RATIO_DEN * width < MIN_RATIO_NUM * height
                 ELSE TRUE)
             THEN "failed_aspect_ratio"
        ELSE IF width < MIN_WIDTH THEN "failed_resolution"
        ELSE IF ~(\A k \in DOMAIN REQUIRED_FIELDS : Truthy(item, REQUIRED_FIELDS[k]))
             THEN "failed_missing_fields"
        ELSE "passed"

NoFailures ==
    [failed_download |-> 0, failed_orientation |-> 0, failed_aspect_ratio |-> 0,
     failed_resolution |-> 0, failed_missing_fields |-> 0]

\* validate_step rejecting a record of too small a width without counting it.
validate_step_uncounted(st, ref) ==
    LET outcome == gate(st.heap[ref])
    IN  IF outcome = "passed"
        THEN [st EXCEPT !.valid_data = Append(@, ref)]
        ELSE IF outcome = "failed_resolution" THEN st
        ELSE [st EXCEPT !.failed[outcome] = @ + 1]

\* One iteration of the loop of validate_images.  The loop only reads the
\* record: the h comes out as it went in.
validate_step(st, ref) ==
    LET outcome == gate(st.heap[ref])
    IN  IF outcome = "passed"
        THEN [st EXCEPT !.valid_data = Append(@, ref)]
        ELSE [st EXCEPT !.failed[outcome] = @ + 1]

RECURSIVE validate_loop(_, _)
validate_loop(st, rest) ==
    IF rest = <<>> THEN st
    ELSE validate_loop(validate_step(st, Head(rest)), Tail(rest))

\* validate_images counting into the counters of the call before it,
\* instead of counters of its own.
validate_images_shared_counters(h, data) ==
    validate_loop([heap |-> h, valid_data |-> <<>>, failed |-> validation_stats], data)

validate_images(h, data) ==
    validate_loop([heap |-> h, valid_data |-> <<>>, failed |-> NoFailures], data)

\* ' '.join(text.split()) on a sequence of characters.
RECURSIVE collapse(_, _, _)
collapse(text, out, pending) ==
    IF text = <<>> THEN out
    ELSE IF Head(text) = " " THEN collapse(Tail(text), out, out # <<>>)
    ELSE collapse(Tail(text),
                  (IF pending THEN Append(out, " ") ELSE out) \o <<Head(text)>>,
                  FALSE)

normalize_description(text) == collapse(text, <<>>, FALSE)

\* enhance_item building a new record from the fields it works on.
enhance_item_rebuilt(item) ==
    LET kept == DOMAIN item \cap {"id", "width", "height", "description"}
        r == [k \in kept |-> item[k]]
        dims == Truthy(r, "width") /\ Truthy(r, "height")
        m == IF dims
             THEN ("aspect_ratio" :> RoundHalfEven(100 * r["width"], r["height"]))
                    @@ ("megapixels" :> RoundHalfEven(r["width"] * r["height"], 100000))
                    @@ r
             ELSE r
    IN  IF Truthy(m, "description")
        THEN [m EXCEPT !["description"] = normalize_description(@)]
        ELSE m

\* enhance_item computing megapixels whenever one of the dimensions is set.
enhance_item_either(item) ==
    LET w == Get(item, "width", 0)
        ht == Get(item, "height", 0)
        a == IF w # 0 /\ ht # 0
             THEN ("aspect_ratio" :> RoundHalfEven(100 * w, ht)) @@ item
             ELSE item
        m == IF w # 0 \/ ht # 0
             THEN ("megapixels" :> RoundHalfEven(w * ht, 100000)) @@ a
             ELSE a
    IN  IF Truthy(m, "description")
        THEN [m EXCEPT !["description"] = normalize_description(@)]
        ELSE m

\* The body of the loop of enhance_metadata for one record (lines 198-208).
\* aspect_ratio is in hundredths, megapixels in tenths.
enhance_item(item) ==
    LET dims == Truthy(item, "width") /\ Truthy(item, "height")
        a == IF dims
             THEN ("aspect_ratio" :> RoundHalfEven(100 * item["width"], item["height"])) @@ item
             ELSE item
        m == IF dims
             THEN ("megapixels" :> RoundHalfEven(item["width"] * item["height"], 100000)) @@ a
             ELSE a
    IN  IF Truthy(m, "description")
        THEN [m EXCEPT !["description"] = normalize_description(@)]
        ELSE m

\* enhance_metadata mutates every record of data in place: the h after.
enhance_metadata(h, data) ==
    [r \in DOMAIN h |-> IF r \in Range(data) THEN enhance_item(h[r]) ELSE h[r]]

\* What json.dump writes for a list of references.
Deref(h, data) == [i \in DOMAIN data |-> h[data[i]]]

(***************************************************************************)
(* load_sqlite.py: the pure parts                                          *)
(***************************************************************************)
\* cursor.execute(insert_sql, ...) against the images table, whose primary
\* key is the identity: the rows after, and whether sqlite3.IntegrityError
\* was raised.
store_insert(table, id) ==
    IF id \in Range(table) THEN [rows |-> table, rejected |-> TRUE]
    ELSE [rows |-> Append(table, id), rejected |-> FALSE]

\* insert_step giving up on the batch at the first rejection.
insert_step_aborts(st, item) ==
    LET r == store_insert(st.rows, Get(item, "id", None))
    IN  IF st.skipped > 0 THEN st
        ELSE IF r.rejected
        THEN [st EXCEPT !.attempted = @ + 1, !.skipped = @ + 1]
        ELSE [st EXCEPT !.attempted = @ + 1, !.rows = r.rows, !.inserted = @ + 1]

\* One iteration of the loop of insert_images (lines 72-98).  attempted
\* counts the calls of cursor.execute.
insert_step(st, item) ==
    LET r == store_insert(st.rows, Get(item, "id", None))
    IN  IF r.rejected
        THEN [st EXCEPT !.attempted = @ + 1, !.skipped = @ + 1]
        ELSE [st EXCEPT !.attempted = @ + 1, !.rows = r.rows, !.inserted = @ + 1]

RECURSIVE insert_loop(_, _)
insert_loop(st, rest) ==
    IF rest = <<>> THEN st
    ELSE insert_loop(insert_step(st, Head(rest)), Tail(rest))

insert_images(table, items) ==
    insert_loop([rows |-> table, inserted |-> 0, skipped |-> 0, attempted |-> 0], items)

(***************************************************************************)
(* ingest.py: extracting a location from an image of the source            *)
(*                                                                         *)
(* A str is the sequence of its characters, a character that is not ASCII  *)
(* being written "U+" and its code point; None where a str is expected is  *)
(* NoText.  The values of the keyword tables are kept whole, their         *)
(* characters that are not ASCII written <U+....>.                         *)
(***************************************************************************)
NoText == <<None>>

\* The letters str.lower() changes, and what it changes them to.
UpperCase ==
    <<"A", "B", "C", "D", "E", "F", "G", "H", "I", "J", "K", "L", "M", "N", "O", "P",
      "Q", "R", "S", "T", "U", "V", "W", "X", "Y", "Z", "U+00C1", "U+00D3", "U+00D6">>

LowerCase ==
    <<"a", "b", "c", "d", "e", "f", "g", "h", "i", "j", "k", "l", "m", "n", "o", "p",
      "q", "r", "s", "t", "u", "v", "w", "x", "y", "z", "U+00E1", "U+00F3", "U+00F6">>

\* str.lower(): it leaves a lower-case letter as it is, accent included.
lower(str) ==
    [i \in DOMAIN str |->
        IF \E k \in DOMAIN UpperCase : UpperCase[k] = str[i]
        THEN LowerCase[CHOOSE k \in DOMAIN UpperCase : UpperCase[k] = str[i]]
        ELSE str[i]]

\* keyword in str
Contains(keyword, str) ==
    \E k \in 0..(Len(str) - Len(keyword)) :
       SubSeq(str, k + 1, k + Len(keyword)) = keyword

\* The landmarks dict, in the order of its keys; 'milford sound' is written
\* twice with one value and is one key.
landmarks ==
    <<
      [keyword |-> <<"j", "o", "k", "u", "l", "s", "a", "r", "l", "o", "n">>,
       value |-> "J<U+00F6>kuls<U+00E1>rl<U+00F3>n Glacier Lagoon"],
      [keyword |-> <<"s", "k", "o", "g", "a", "f", "o", "s", "s">>,
       value |-> "Sk<U+00F3>gafoss"],
      [keyword |-> <<"s", "e", "l", "j", "a", "l", "a", "n", "d", "s", "f", "o", "s", "s">>,
       value |-> "Seljalandsfoss"],
      [keyword |-> <<"g", "u", "l", "f", "o", "s", "s">>,
       value |-> "Gullfoss"],
      [keyword |-> <<"r", "e", "y", "n", "i", "s", "f", "j", "a", "r", "a">>,
       value |-> "Reynisfjara Black Beach"],
      [keyword |-> <<"k", "i", "r", "k", "j", "u", "f", "e", "l", "l">>,
       value |-> "Kirkjufell"],
      [keyword |-> <<"y", "o", "s", "e", "m", "i", "t", "e">>,
       value |-> "Yosemite Valley"],
      [keyword |-> <<"g", "r", "a", "n", "d", " ", "c", "a", "n", "y", "o", "n">>,
       value |-> "Grand Canyon"],
      [keyword |-> <<"y", "e", "l", "l", "o", "w", "s", "t", "o", "n", "e">>,
       value |-> "Yellowstone"],
      [keyword |-> <<"z", "i", "o", "n">>,
       value |-> "Zion National Park"],
      [keyword |-> <<"b", "r", "y", "c", "e", " ", "c", "a", "n", "y", "o", "n">>,
       value |-> "Bryce Canyon"],
      [keyword |-> <<"a", "r", "c", "h", "e", "s">>,
       value |-> "Arches National Park"],
      [keyword |-> <<"a", "n", "t", "e", "l", "o", "p", "e", " ", "c", "a", "n", "y", "o", "n">>,
       value |-> "Antelope Canyon"],
      [keyword |-> <<"c", "r", "a", "t", "e", "r", " ", "l", "a", "k", "e">>,
       value |-> "Crater Lake"],
      [keyword |-> <<"d", "e", "a", "t", "h", " ", "v", "a", "l", "l", "e", "y">>,
       value |-> "Death Valley"],
      [keyword |-> <<"m", "o", "n", "u", "m", "e", "n", "t", " ", "v", "a", "l", "l", "e", "y">>,
       value |-> "Monument Valley"],
      [keyword |-> <<"s", "e", "d", "o", "n", "a">>,
       value |-> "Sedona"],
      [keyword |-> <<"h", "a", "v", "a", "s", "u", " ", "f", "a", "l", "l", "s">>,
       value |-> "Havasu Falls"],
      [keyword |-> <<"b", "a", "n", "f", "f">>,
       value |-> "Banff National Park"],
      [keyword |-> <<"m", "o", "r", "a", "i", "n", "e", " ", "l", "a", "k", "e">>,
       value |-> "Moraine Lake"],
      [keyword |-> <<"l", "a", "k", "e", " ", "l", "o", "u", "i", "s", "e">>,
       value |-> "Lake Louise"],
      [keyword |-> <<"p", "e", "y", "t", "o", " ", "l", "a", "k", "e">>,
       value |-> "Peyto Lake"],
      [keyword |-> <<"j", "a", "s", "p", "e", "r">>,
       value |-> "Jasper National Park"],
      [keyword |-> <<"p", "a", "t", "a", "g", "o", "n", "i", "a">>,
       value |-> "Patagonia"],
      [keyword |-> <<"t", "o", "r", "r", "e", "s", " ", "d", "e", "l", " ", "p", "a", "i", "n", "e">>,
       value |-> "Torres del Paine"],
      [keyword |-> <<"i", "g", "u", "a", "z", "u">>,
       value |-> "Iguazu Falls"],
      [keyword |-> <<"s", "a", "l", "a", "r", " ", "d", "e", " ", "u", "y", "u", "n", "i">>,
       value |-> "Salar de Uyuni"],
      [keyword |-> <<"m", "a", "c", "h", "u", " ", "p", "i", "c", "c", "h", "u">>,
       value |-> "Machu Picchu"],
      [keyword |-> <<"a", "t", "a", "c", "a", "m", "a">>,
       value |-> "Atacama Desert"],
      [keyword |-> <<"p", "e", "r", "i", "t", "o", " ", "m", "o", "r", "e", "n", "o">>,
       value |-> "Perito Moreno Glacier"],
      [keyword |-> <<"d", "o", "l", "o", "m", "i", "t", "e", "s">>,
       value |-> "Dolomites"],
      [keyword |-> <<"m", "a", "t", "t", "e", "r", "h", "o", "r", "n">>,
       value |-> "Matterhorn"],
      [keyword |-> <<"l", "o", "f", "o", "t", "e", "n">>,
       value |-> "Lofoten Islands"],
      [keyword |-> <<"f", "a", "r", "o", "e">>,
       value |-> "Faroe Islands"],
      [keyword |-> <<"p", "l", "i", "t", "v", "i", "c", "e">>,
       value |-> "Plitvice Lakes"],
      [keyword |-> <<"l", "a", "k", "e", " ", "b", "l", "e", "d">>,
       value |-> "Lake Bled"],
      [keyword |-> <<"s", "w", "i", "s", "s", " ", "a", "l", "p", "s">>,
       value |-> "Swiss Alps"],
      [keyword |-> <<"s", "c", "o", "t", "t", "i", "s", "h", " ", "h", "i", "g", "h", "l", "a", "n", "d", "s">>,
       value |-> "Scottish Highlands"],
      [keyword |-> <<"a", "m", "a", "l", "f", "i">>,
       value |-> "Amalfi Coast"],
      [keyword |-> <<"c", "i", "n", "q", "u", "e", " ", "t", "e", "r", "r", "e">>,
       value |-> "Cinque Terre"],
      [keyword |-> <<"s", "a", "n", "t", "o", "r", "i", "n", "i">>,
       value |-> "Santorini"],
      [keyword |-> <<"m", "e", "t", "e", "o", "r", "a">>,
       value |-> "Meteora"],
      [keyword |-> <<"c", "a", "p", "p", "a", "d", "o", "c", "i", "a">>,
       value |-> "Cappadocia"],
      [keyword |-> <<"p", "a", "m", "u", "k", "k", "a", "l", "e">>,
       value |-> "Pamukkale"],
      [keyword |-> <<"m", "o", "u", "n", "t", " ", "f", "u", "j", "i">>,
       value |-> "Mount Fuji"],
      [keyword |-> <<"z", "h", "a", "n", "g", "j", "i", "a", "j", "i", "e">>,
       value |-> "Zhangjiajie"],
      [keyword |-> <<"g", "u", "i", "l", "i", "n">>,
       value |-> "Guilin"],
      [keyword |-> <<"h", "a", "l", "o", "n", "g", " ", "b", "a", "y">>,
       value |-> "Halong Bay"],
      [keyword |-> <<"p", "h", "i", " ", "p", "h", "i">>,
       value |-> "Phi Phi Islands"],
      [keyword |-> <<"b", "a", "l", "i">>,
       value |-> "Bali"],
      [keyword |-> <<"m", "i", "l", "f", "o", "r", "d", " ", "s", "o", "u", "n", "d">>,
       value |-> "Milford Sound"],
      [keyword |-> <<"m", "o", "u", "n", "t", " ", "c", "o", "o", "k">>,
       value |-> "Mount Cook"],
      [keyword |-> <<"l", "a", "k", "e", " ", "t", "e", "k", "a", "p", "o">>,
       value |-> "Lake Tekapo"],
      [keyword |-> <<"u", "l", "u", "r", "u">>,
       value |-> "Uluru"],
      [keyword |-> <<"t", "w", "e", "l", "v", "e", " ", "a", "p", "o", "s", "t", "l", "e", "s">>,
       value |-> "Twelve Apostles"],
      [keyword |-> <<"f", "i", "o", "r", "d", "l", "a", "n", "d">>,
       value |-> "Fiordland"]
    >>

\* The countries dict, in the order of its keys.
countries ==
    <<
      [keyword |-> <<"i", "c", "e", "l", "a", "n", "d">>,
       value |-> "Iceland"],
      [keyword |-> <<"n", "o", "r", "w", "a", "y">>,
       value |-> "Norway"],
      [keyword |-> <<"s", "w", "i", "t", "z", "e", "r", "l", "a", "n", "d">>,
       value |-> "Switzerland"],
      [keyword |-> <<"i", "t", "a", "l", "y">>,
       value |-> "Italy"],
      [keyword |-> <<"c", "a", "n", "a", "d", "a">>,
       value |-> "Canada"],
      [keyword |-> <<"n", "e", "w", " ", "z", "e", "a", "l", "a", "n", "d">>,
       value |-> "New Zealand"],
      [keyword |-> <<"p", "a", "t", "a", "g", "o", "n", "i", "a">>,
       value |-> "Argentina/Chile"],
      [keyword |-> <<"c", "h", "i", "l", "e">>,
       value |-> "Chile"],
      [keyword |-> <<"b", "o", "l", "i", "v", "i", "a">>,
       value |-> "Bolivia"],
      [keyword |-> <<"p", "e", "r", "u">>,
       value |-> "Peru"],
      [keyword |-> <<"g", "r", "e", "e", "c", "e">>,
       value |-> "Greece"],
      [keyword |-> <<"t", "u", "r", "k", "e", "y">>,
       value |-> "Turkey"],
      [keyword |-> <<"s", "l", "o", "v", "e", "n", "i", "a">>,
       value |-> "Slovenia"],
      [keyword |-> <<"c", "r", "o", "a", "t", "i", "a">>,
       value |-> "Croatia"],
      [keyword |-> <<"s", "c", "o", "t", "l", "a", "n", "d">>,
       value |-> "Scotland"],
      [keyword |-> <<"j", "a", "p", "a", "n">>,
       value |-> "Japan"],
      [keyword |-> <<"c", "h", "i", "n", "a">>,
       value |-> "China"],
      [keyword |-> <<"v", "i", "e", "t", "n", "a", "m">>,
       value |-> "Vietnam"],
      [keyword |-> <<"t", "h", "a", "i", "l", "a", "n", "d">>,
       value |-> "Thailand"],
      [keyword |-> <<"i", "n", "d", "o", "n", "e", "s", "i", "a">>,
       value |-> "Indonesia"],
      [keyword |-> <<"a", "u", "s", "t", "r", "a", "l", "i", "a">>,
       value |-> "Australia"],
      [keyword |-> <<"u", "s", "a">>,
       value |-> "United States"],
      [keyword |-> <<"u", "n", "i", "t", "e", "d", " ", "s", "t", "a", "t", "e", "s">>,
       value |-> "United States"],
      [keyword |-> <<"c", "a", "l", "i", "f", "o", "r", "n", "i", "a">>,
       value |-> "United States"],
      [keyword |-> <<"a", "r", "i", "z", "o", "n", "a">>,
       value |-> "United States"],
      [keyword |-> <<"u", "t", "a", "h">>,
       value |-> "United States"],
      [keyword |-> <<"c", "o", "l", "o", "r", "a", "d", "o">>,
       value |-> "United States"],
      [keyword |-> <<"m", "o", "n", "t", "a", "n", "a">>,
       value |-> "United States"],
      [keyword |-> <<"o", "r", "e", "g", "o", "n">>,
       value |-> "United States"],
      [keyword |-> <<"w", "a", "s", "h", "i", "n", "g", "t", "o", "n">>,
       value |-> "United States"]
    >>

\* for keyword, value in table.items(): if keyword in text_lower: the value
\* of the first hit from position i on, None when there is none.
RECURSIVE first_match(_, _, _)
first_match(table, text_lower, i) ==
    IF i > Len(table) THEN None
    ELSE IF Contains(table[i].keyword, text_lower) THEN table[i].value
         ELSE first_match(table, text_lower, i + 1)

\* extract_location_from_text looking for a country before a landmark.
extract_location_from_text_country_first(str) ==
    IF str = NoText \/ str = <<>> THEN <<None, None>>
    ELSE LET text_lower == lower(str)
             country == first_match(countries, text_lower, 1)
         IN  IF country # None THEN <<None, country>>
             ELSE <<first_match(landmarks, text_lower, 1), None>>

extract_location_from_text(str) ==
    IF str = NoText \/ str = <<>> THEN <<None, None>>
    ELSE LET text_lower == lower(str)
             location == first_match(landmarks, text_lower, 1)
             country == first_match(countries, text_lower, 1)
         IN  IF location # None THEN <<location, country>>
             ELSE IF country # None THEN <<None, country>>
             ELSE <<None, None>>

\* bool(d.get(key)) for a key that holds a str or None.
TextTruthy(d, key) == key \in DOMAIN d /\ d[key] \notin {NoText, <<>>}

\* JSON null where the source is expected to send an object.
Null == [null |-> TRUE]

\* extract_location letting what it parsed from the text replace what the
\* source supplied.
extract_location_text_first(data) ==
    LET location == IF "location" \in DOMAIN data THEN data["location"] ELSE <<>>
        description == IF TextTruthy(data, "description") THEN data["description"]
                       ELSE IF TextTruthy(data, "alt_description")
                            THEN data["alt_description"]
                            ELSE <<>>
        parsed == extract_location_from_text(description)
    IN  IF "null" \in DOMAIN location
        THEN [raised |-> "AttributeError", result |-> <<None, None>>]
        ELSE [raised |-> "",
              result |-> << IF parsed[1] # None THEN parsed[1]
                            ELSE IF Truthy(location, "name") THEN location["name"]
                            ELSE IF Truthy(location, "city") THEN location["city"]
                            ELSE None,
                            IF parsed[2] # None THEN parsed[2]
                            ELSE IF Truthy(location, "country") THEN location["country"]
                            ELSE None >>]

\* extract_location(image_data): what it raised, or the tuple it returned.
extract_location(data) ==
    LET location == IF "location" \in DOMAIN data THEN data["location"] ELSE <<>>
        official_name == IF Truthy(location, "name") THEN location["name"]
                         ELSE IF Truthy(location, "city") THEN location["city"]
                         ELSE None
        official_country == IF Truthy(location, "country") THEN location["country"]
                            ELSE None
        description == IF TextTruthy(data, "description") THEN data["description"]
                       ELSE IF TextTruthy(data, "alt_description")
                            THEN data["alt_description"]
                            ELSE <<>>
        parsed == extract_location_from_text(description)
    IN  IF "null" \in DOMAIN location
        THEN [raised |-> "AttributeError", result |-> <<None, None>>]
        ELSE IF official_name = None \/ official_country = None
        THEN [raised |-> "",
              result |-> << IF official_name = None /\ parsed[1] # None
                            THEN parsed[1] ELSE official_name,
                            IF official_country = None /\ parsed[2] # None
                            THEN parsed[2] ELSE official_country >>]
        ELSE [raised |-> "", result |-> <<official_name, official_country>>]

(***************************************************************************)
(* api.py: the two read endpoints.  A caption is the sequence of the       *)
(* pieces it is formatted from; JSON null is <<None>>.                     *)
(***************************************************************************)
\* caption_with_location giving the country alone when it has one.
caption_with_location_country_wins(row) ==
    IF Truthy(row, "country") THEN <<row.country>>
    ELSE <<row.location_name>>

\* The caption of get_random_image (lines 58-65).
caption_random(row) ==
    IF Truthy(row, "location_name") /\ Truthy(row, "country")
    THEN <<row.location_name, ", ", row.country>>
    ELSE IF Truthy(row, "country") THEN <<row.country>>
    ELSE IF Truthy(row, "location_name") THEN <<row.location_name>>
    ELSE <<None>>

\* The caption of get_random_with_location (lines 114-120).
caption_with_location(row) ==
    IF Truthy(row, "location_name") /\ Truthy(row, "country")
    THEN <<row.location_name, ", ", row.country>>
    ELSE IF Truthy(row, "country") THEN <<row.country>>
    ELSE <<row.location_name>>

\* WHERE location_name IS NOT NULL OR country IS NOT NULL
with_location_rows(table) ==
    { row \in table : row.location_name # None \/ row.country # None }

(***************************************************************************)
(* Initial state and state tuples                                          *)
(***************************************************************************)
files == <<raw_file, cleaned_file, report_file>>

cleaner == <<pc, err, stages, heap, raw_data, unique_data, valid_data, cleaned_data,
             stats, validation_stats, duplicates_removed, printed, summary>>

loader == <<lpc, lerr, rows, rows_before, batch, inserted, skipped, attempted>>

ingest == <<xpc, text_arg, image_data, extracted, xerr>>

api == <<images, responses>>

ingestion ==
    <<ipc, ierr, searched, remaining, all_metadata, images_downloaded, metadata_file>>

vars == <<files, cleaner, loader, rerun, ingest, api, ingestion>>

NoStats ==
    [total |-> 0, downloaded |-> 0, duplicates |-> 0, duplicate_ids |-> {},
     landscape_count |-> 0, portrait_count |-> 0]

NoSummary ==
    [printed |-> FALSE, started_with |-> 0, removed_duplicates |-> 0,
     filtered_invalid |-> 0, final_dataset |-> 0, data_quality |-> 0]

NoReport ==
    [exists |-> FALSE, total |-> 0, downloaded |-> 0, duplicates |-> 0,
     portrait_count |-> 0, duplicates_removed |-> 0, invalid_filtered |-> 0,
     valid_images |-> 0, data_quality |-> 0]

NoRerun == [done |-> FALSE, valid_data |-> <<>>, failed |-> NoFailures]

\* The memory of a process of clean.py that has not loaded anything.
CleanerFresh ==
    /\ err = ""
    /\ stages = <<>>
    /\ heap = <<>>
    /\ raw_data = <<>>
    /\ unique_data = <<>>
    /\ valid_data = <<>>
    /\ cleaned_data = <<>>
    /\ stats = NoStats
    /\ validation_stats = NoFailures
    /\ duplicates_removed = 0
    /\ printed = <<>>
    /\ summary = NoSummary

LoaderFresh ==
    /\ lpc = "idle"
    /\ lerr = ""
    /\ rows = <<>>
    /\ rows_before = <<>>
    /\ batch = <<>>
    /\ inserted = 0
    /\ skipped = 0
    /\ attempted = 0

\* An endpoint that was not called.
NoResponse == [status |-> 0]

\* No call of ingest.py made.
IngestFresh ==
    /\ xpc = "idle"
    /\ text_arg = <<>>
    /\ image_data = <<>>
    /\ extracted = <<None, None>>
    /\ xerr = ""

\* No request made to api.py, on an empty table.
ApiFresh ==
    /\ images = {}
    /\ responses = [random |-> NoResponse, location |-> NoResponse]

\* main of ingest.py not started.
IngestionFresh ==
    /\ ipc = "idle"
    /\ ierr = ""
    /\ searched = <<>>
    /\ remaining = 0
    /\ all_metadata = <<>>
    /\ images_downloaded = 0
    /\ metadata_file = [exists |-> FALSE, data |-> <<>>]

Init ==
    /\ raw_file \in Inputs
    /\ cleaned_file = [exists |-> FALSE, data |-> <<>>]
    /\ report_file = NoReport
    /\ pc = "load"
    /\ CleanerFresh
    /\ LoaderFresh
    /\ rerun = NoRerun
    /\ IngestionFresh
    /\ IngestFresh
    /\ ApiFresh

(***************************************************************************)
(* main of clean.py, one action per step.  An exception in a step ends     *)
(* main: no step of main is wrapped in try/except.                         *)
(***************************************************************************)
\* An exception that is logged and swallowed: main goes on with its next call.
Raise_swallowed(exception) ==
    /\ err' = exception
    /\ pc' = CASE pc = "load" -> "analyze"
               [] pc = "analyze" -> "dedup"
               [] pc = "dedup" -> "validate"
               [] pc = "validate" -> "enhance"
               [] pc = "enhance" -> "save"
               [] pc = "save" -> "report"
               [] pc = "report" -> "summary"
               [] OTHER -> "done"

Raise(exception) ==
    /\ pc' = "error"
    /\ err' = exception

Return(step, next) ==
    /\ pc' = next
    /\ stages' = Append(stages, step)
    /\ err' = err

\* raw_data = load_raw_data()
Main_load_raw_data ==
    /\ pc = "load"
    /\ heap' = raw_file
    /\ raw_data' = [i \in DOMAIN raw_file |-> i]
    /\ Return("load", "analyze")
    /\ UNCHANGED <<files, loader, rerun, ingestion, ingest, api, unique_data, valid_data, cleaned_data, stats,
                   validation_stats, duplicates_removed, printed, summary>>

\* stats = analyze_data(raw_data)
Main_analyze_data ==
    /\ pc = "analyze"
    /\ LET r == analyze_data(heap, raw_data)
       IN  /\ printed' = r.printed
           /\ IF r.raised # ""
              THEN Raise(r.raised) /\ UNCHANGED <<stats, stages>>
              ELSE stats' = r.stats /\ Return("analyze", "dedup")
    /\ UNCHANGED <<files, loader, rerun, ingestion, ingest, api, heap, raw_data, unique_data, valid_data,
                   cleaned_data, validation_stats, duplicates_removed, summary>>

\* unique_data = remove_duplicates(raw_data)
Main_remove_duplicates ==
    /\ pc = "dedup"
    /\ LET r == remove_duplicates(heap, raw_data)
       IN  IF r.raised # ""
           THEN Raise(r.raised) /\ UNCHANGED <<unique_data, duplicates_removed, stages>>
           ELSE /\ unique_data' = r.unique_data
                /\ duplicates_removed' = r.duplicates_removed
                /\ Return("dedup", "validate")
    /\ UNCHANGED <<files, loader, rerun, ingestion, ingest, api, heap, raw_data, valid_data, cleaned_data,
                   stats, validation_stats, printed, summary>>

\* valid_data, validation_stats = validate_images(unique_data)
Main_validate_images ==
    /\ pc = "validate"
    /\ LET r == validate_images(heap, unique_data)
       IN  /\ heap' = r.heap
           /\ valid_data' = r.valid_data
           /\ validation_stats' = r.failed
    /\ Return("validate", "enhance")
    /\ UNCHANGED <<files, loader, rerun, ingestion, ingest, api, raw_data, unique_data, cleaned_data, stats,
                   duplicates_removed, printed, summary>>

\* cleaned_data = enhance_metadata(valid_data): the same list, its records
\* mutated in place.
Main_enhance_metadata ==
    /\ pc = "enhance"
    /\ heap' = enhance_metadata(heap, valid_data)
    /\ cleaned_data' = valid_data
    /\ Return("enhance", "save")
    /\ UNCHANGED <<files, loader, rerun, ingestion, ingest, api, raw_data, unique_data, valid_data, stats,
                   validation_stats, duplicates_removed, printed, summary>>

\* save_cleaned_data called on the validated list before enhance_metadata ran.
Main_save_cleaned_data_early ==
    /\ pc = "enhance"
    /\ cleaned_file' = [exists |-> TRUE, data |-> Deref(heap, valid_data)]
    /\ Return("save", "report")
    /\ UNCHANGED <<raw_file, report_file, loader, rerun, ingestion, ingest, api, heap, raw_data, unique_data,
                   valid_data, cleaned_data, stats, validation_stats,
                   duplicates_removed, printed, summary>>

\* save_cleaned_data(cleaned_data); opening or writing the file may fail.
Main_save_cleaned_data ==
    /\ pc = "save"
    /\ \E ok \in BOOLEAN :
         IF ok
         THEN /\ cleaned_file' = [exists |-> TRUE, data |-> Deref(heap, cleaned_data)]
              /\ Return("save", "report")
         ELSE /\ Raise("OSError")
              /\ UNCHANGED <<cleaned_file, stages>>
    /\ UNCHANGED <<raw_file, report_file, loader, rerun, ingestion, ingest, api, heap, raw_data, unique_data,
                   valid_data, cleaned_data, stats, validation_stats,
                   duplicates_removed, printed, summary>>

\* generate_report(stats, len(cleaned_data)): the text is built first (with
\* its division by stats['total']), then written; the write may fail.
Main_generate_report ==
    /\ pc = "report"
    /\ LET cleaned_count == Len(cleaned_data)
       IN  IF stats.total = 0
           THEN Raise("ZeroDivisionError") /\ UNCHANGED <<report_file, stages>>
           ELSE \E ok \in BOOLEAN :
                  IF ok
                  THEN /\ report_file' =
                            [exists |-> TRUE,
                             total |-> stats.total,
                             downloaded |-> stats.downloaded,
                             duplicates |-> stats.duplicates,
                             portrait_count |-> stats.portrait_count,
                             duplicates_removed |-> stats.duplicates,
                             invalid_filtered |-> stats.total - cleaned_count,
                             valid_images |-> cleaned_count,
                             data_quality |-> Pct(cleaned_count, stats.total)]
                       /\ Return("report", "summary")
                  ELSE /\ Raise("OSError")
                       /\ UNCHANGED <<report_file, stages>>
    /\ UNCHANGED <<raw_file, cleaned_file, loader, rerun, ingestion, ingest, api, heap, raw_data, unique_data,
                   valid_data, cleaned_data, stats, validation_stats,
                   duplicates_removed, printed, summary>>

\* The rest of main (lines 285-301): the summary, then the location
\* coverage of the clean data, which divides by len(cleaned_data).
Main_summary ==
    /\ pc = "summary"
    /\ LET with_location ==
               Cardinality({ i \in DOMAIN cleaned_data :
                               \/ Truthy(heap[cleaned_data[i]], "location_name")
                               \/ Truthy(heap[cleaned_data[i]], "country") })
       IN  IF Len(raw_data) = 0
           THEN /\ Raise("ZeroDivisionError")
                /\ UNCHANGED <<summary, printed, stages>>
           ELSE /\ summary' =
                     [printed |-> TRUE,
                      started_with |-> Len(raw_data),
                      removed_duplicates |-> stats.duplicates,
                      filtered_invalid |-> Len(unique_data) - Len(cleaned_data),
                      final_dataset |-> Len(cleaned_data),
                      data_quality |-> Pct(Len(cleaned_data), Len(raw_data))]
                /\ IF Len(cleaned_data) = 0
                   THEN /\ Raise("ZeroDivisionError")
                        /\ UNCHANGED <<printed, stages>>
                   ELSE /\ printed' =
                             [location_coverage |-> Pct(with_location, Len(cleaned_data))]
                               @@ printed
                        /\ Return("summary", "done")
    /\ UNCHANGED <<files, loader, rerun, ingestion, ingest, api, heap, raw_data, unique_data, valid_data,
                   cleaned_data, stats, validation_stats, duplicates_removed>>

(***************************************************************************)
(* main of load_sqlite.py, run once the process of clean.py has ended.     *)
(***************************************************************************)
\* setup_database and create_tables: the table holds what an earlier run
\* left in it.
Load_setup_database ==
    /\ lpc = "idle"
    /\ pc \in {"done", "error"}
    /\ rows' \in PriorStores
    /\ lpc' = "load"
    /\ UNCHANGED <<files, cleaner, rerun, ingestion, ingest, api, lerr, rows_before, batch, inserted, skipped,
                   attempted>>

\* data = load_cleaned_data()
Load_load_cleaned_data ==
    /\ lpc = "load"
    /\ IF cleaned_file.exists
       THEN batch' = cleaned_file.data /\ lpc' = "insert" /\ lerr' = lerr
       ELSE batch' = batch /\ lpc' = "error" /\ lerr' = "FileNotFoundError"
    /\ UNCHANGED <<files, cleaner, rerun, ingestion, ingest, api, rows, rows_before, inserted, skipped, attempted>>

\* inserted = insert_images(cursor, data)
Load_insert_images ==
    /\ lpc = "insert"
    /\ LET r == insert_images(rows, batch)
       IN  /\ rows' = r.rows
           /\ inserted' = r.inserted
           /\ skipped' = r.skipped
           /\ attempted' = r.attempted
    /\ rows_before' = rows
    /\ lpc' = "commit"
    /\ UNCHANGED <<files, cleaner, rerun, ingestion, ingest, api, lerr, batch>>

\* conn.commit(), then verify_database, which formats AVG(width): None when
\* the table is empty.
Load_commit_and_verify ==
    /\ lpc = "commit"
    /\ IF rows = <<>>
       THEN lpc' = "error" /\ lerr' = "TypeError"
       ELSE lpc' = "done" /\ lerr' = lerr
    /\ UNCHANGED <<files, cleaner, rerun, ingestion, ingest, api, rows, rows_before, batch, inserted, skipped,
                   attempted>>

Next ==
    \/ Main_load_raw_data
    \/ Main_analyze_data
    \/ Main_remove_duplicates
    \/ Main_validate_images
    \/ Main_enhance_metadata
    \/ Main_save_cleaned_data
    \/ Main_generate_report
    \/ Main_summary
    \/ Load_setup_database
    \/ Load_load_cleaned_data
    \/ Load_insert_images
    \/ Load_commit_and_verify

Spec == Init /\ [][Next]_vars

(***************************************************************************)
(* validate_images applied a second time to the list the first call was    *)
(* given, on the heap the first call left.                                 *)
(***************************************************************************)
Rerun_validate_images ==
    /\ pc = "enhance"
    /\ ~rerun.done
    /\ LET r == validate_images(heap, unique_data)
       IN  /\ heap' = r.heap
           /\ rerun' = [done |-> TRUE, valid_data |-> r.valid_data, failed |-> r.failed]
    /\ UNCHANGED <<files, loader, ingest, api, ingestion, pc, err, stages, raw_data, unique_data, valid_data,
                   cleaned_data, stats, validation_stats, duplicates_removed, printed,
                   summary>>

NextRerun ==
    \/ Main_load_raw_data
    \/ Main_analyze_data
    \/ Main_remove_duplicates
    \/ Main_validate_images
    \/ Rerun_validate_images

SpecRerun == Init /\ [][NextRerun]_vars

(***************************************************************************)
(* enhance_metadata called on its own, on any list of records: the records *)
(* of the raw file are the list, whether or not validate_images would have *)
(* accepted them.                                                          *)
(***************************************************************************)
\* The record without one of its keys.
Without(item, key) == [k \in DOMAIN item \ {key} |-> item[k]]

EnhanceRecords ==
    { WithId(Base, "a"),
      WithId([Base EXCEPT !.width = 1800, !.height = 1600,
                          !.description = <<"x", " ", "y">>], "b"),
      WithId(Without(Base, "width"), "a"),
      WithId([Base EXCEPT !.height = 0], "b"),
      WithId(Without([Base EXCEPT !.width = 0], "height"), "a"),
      WithId(Without(Base, "description"), "b"),
      WithId([Base EXCEPT !.description = <<>>, !.width = 1921, !.height = 1080], "a") }

InitEnhance ==
    /\ raw_file \in SeqsUpTo(EnhanceRecords, MaxLen)
    /\ cleaned_file = [exists |-> FALSE, data |-> <<>>]
    /\ report_file = NoReport
    /\ pc = "call"
    /\ err = ""
    /\ stages = <<>>
    /\ heap = raw_file
    /\ raw_data = <<>>
    /\ unique_data = <<>>
    /\ valid_data = [i \in DOMAIN raw_file |-> i]
    /\ cleaned_data = <<>>
    /\ stats = NoStats
    /\ validation_stats = NoFailures
    /\ duplicates_removed = 0
    /\ printed = <<>>
    /\ summary = NoSummary
    /\ LoaderFresh
    /\ rerun = NoRerun
    /\ IngestionFresh
    /\ IngestFresh
    /\ ApiFresh

\* cleaned_data = enhance_metadata(valid_data)
Call_enhance_metadata ==
    /\ pc = "call"
    /\ heap' = enhance_metadata(heap, valid_data)
    /\ cleaned_data' = valid_data
    /\ pc' = "returned"
    /\ UNCHANGED <<files, loader, rerun, ingestion, ingest, api, err, stages, raw_data, unique_data, valid_data,
                   stats, validation_stats, duplicates_removed, printed, summary>>

NextEnhance == Call_enhance_metadata

SpecEnhance == InitEnhance /\ [][NextEnhance]_vars

(***************************************************************************)
(* extract_location_from_text and extract_location of ingest.py, each      *)
(* called on its own.                                                      *)
(***************************************************************************)
MaxWords == 3

\* Words a description is made of: landmarks and countries in either case,
\* a landmark keyword inside another word, an accented spelling, a word of
\* both tables and a word of neither.
Vocabulary ==
    { <<"b", "a", "n", "f", "f">>,
      <<"Y", "o", "s", "e", "m", "i", "t", "e">>,
      <<"c", "a", "n", "a", "d", "a">>,
      <<"I", "C", "E", "L", "A", "N", "D">>,
      <<"b", "a", "l", "i", "n", "e", "s", "e">>,
      <<"s", "u", "n", "s", "e", "t">>,
      <<"J", "U+00F6", "k", "u", "l", "s", "U+00E1", "r", "l", "U+00F3", "n">>,
      <<"p", "a", "t", "a", "g", "o", "n", "i", "a">> }

RECURSIVE Join(_)
Join(words) ==
    IF words = <<>> THEN <<>>
    ELSE IF Len(words) = 1 THEN words[1]
         ELSE words[1] \o <<" ">> \o Join(Tail(words))

\* "Sunset over J<U+00F6>kuls<U+00E1>rl<U+00F3>n glacier lagoon in Iceland"
GlacierLagoonDescription ==
    <<"S", "u", "n", "s", "e", "t", " ", "o", "v", "e", "r", " ", "J", "U+00F6",
    "k", "u", "l", "s", "U+00E1", "r", "l", "U+00F3", "n", " ", "g", "l", "a", "c",
    "i", "e", "r", " ", "l", "a", "g", "o", "o", "n", " ", "i", "n", " ", "I", "c",
    "e", "l", "a", "n", "d">>

Texts ==
    { Join(ws) : ws \in SeqsUpTo(Vocabulary, MaxWords) }
      \cup { NoText, GlacierLagoonDescription }

\* A key the dict does not hold.
Absent == "<absent>"

\* The dict of the keys whose value is not the one that stands for absent.
Pick(keys, vals, absent) == [k \in { j \in keys : vals[j] # absent } |-> vals[k]]

\* The 'location' object of an image, any of its fields missing, null or empty.
Locations ==
    { Pick({"name", "city", "country"}, [name |-> n, city |-> c, country |-> k],
           Absent) :
        n \in {Absent, None, "", "N"}, c \in {Absent, "", "Y"},
        k \in {Absent, None, "", "K"} }

\* The 'description' and 'alt_description' of an image.
Descriptions ==
    { Pick({"description", "alt_description"}, [description |-> d, alt_description |-> a],
           <<Absent>>) :
        d \in { <<Absent>>, NoText, <<>>, Join(<<<<"b", "a", "n", "f", "f">>, <<"c", "a", "n", "a", "d", "a">>>>),
                <<"I", "C", "E", "L", "A", "N", "D">> },
        a \in { <<Absent>>, Join(<<<<"Y", "o", "s", "e", "m", "i", "t", "e">>, <<"p", "a", "t", "a", "g", "o", "n", "i", "a">>>>) } }

ImageData ==
    Descriptions
      \cup { ("location" :> l) @@ d : l \in Locations \cup {Null}, d \in Descriptions }

InitLocation ==
    /\ raw_file = <<>>
    /\ cleaned_file = [exists |-> FALSE, data |-> <<>>]
    /\ report_file = NoReport
    /\ pc = "load"
    /\ CleanerFresh
    /\ LoaderFresh
    /\ rerun = NoRerun
    /\ IngestionFresh
    /\ ApiFresh
    /\ extracted = <<None, None>>
    /\ xerr = ""
    /\ \/ xpc = "call_text" /\ text_arg \in Texts /\ image_data = <<>>
       \/ xpc = "call_location" /\ text_arg = <<>> /\ image_data \in ImageData

\* location_name, country = extract_location_from_text(text)
Call_extract_location_from_text ==
    /\ xpc = "call_text"
    /\ extracted' = extract_location_from_text(text_arg)
    /\ xpc' = "text_returned"
    /\ UNCHANGED <<files, cleaner, loader, rerun, ingestion, api, text_arg, image_data, xerr>>

\* location_name, country = extract_location(image_data)
Call_extract_location ==
    /\ xpc = "call_location"
    /\ LET r == extract_location(image_data)
       IN  extracted' = r.result /\ xerr' = r.raised
    /\ xpc' = "location_returned"
    /\ UNCHANGED <<files, cleaner, loader, rerun, ingestion, api, text_arg, image_data>>

NextLocation ==
    \/ Call_extract_location_from_text
    \/ Call_extract_location

SpecLocation == InitLocation /\ [][NextLocation]_vars

(***************************************************************************)
(* The endpoints of api.py, each requested once against an images table    *)
(* as load_sqlite.py fills it: location_name and country are NULL or what  *)
(* extract_location returned, which is never an empty string.              *)
(***************************************************************************)
ImageIds == {"a", "b", "c"}

ImageRows == [id : ImageIds, location_name : {None, "N"}, country : {None, "K"}]

\* The tables: id is the primary key.
Tables ==
    { t \in SUBSET ImageRows : \A r1, r2 \in t : r1.id = r2.id => r1 = r2 }

InitApi ==
    /\ raw_file = <<>>
    /\ cleaned_file = [exists |-> FALSE, data |-> <<>>]
    /\ report_file = NoReport
    /\ pc = "load"
    /\ CleanerFresh
    /\ LoaderFresh
    /\ rerun = NoRerun
    /\ IngestionFresh
    /\ IngestFresh
    /\ images \in Tables
    /\ responses = [random |-> NoResponse, location |-> NoResponse]

\* GET /api/random
Api_get_random_image ==
    /\ responses.random = NoResponse
    /\ \/ responses' = [responses EXCEPT !.random = [status |-> 500]]
       \/ /\ images = {}
          /\ responses' = [responses EXCEPT !.random = [status |-> 404]]
       \/ \E row \in images :
             responses' = [responses EXCEPT !.random =
                              [status |-> 200, id |-> row.id,
                               caption |-> caption_random(row)]]
    /\ UNCHANGED <<files, cleaner, loader, rerun, ingestion, ingest, images>>

\* GET /api/random/location
Api_get_random_with_location ==
    /\ responses.location = NoResponse
    /\ \/ responses' = [responses EXCEPT !.location = [status |-> 500]]
       \/ /\ with_location_rows(images) = {}
          /\ responses' = [responses EXCEPT !.location = [status |-> 404]]
       \/ \E row \in with_location_rows(images) :
             responses' = [responses EXCEPT !.location =
                              [status |-> 200, id |-> row.id,
                               caption |-> caption_with_location(row)]]
    /\ UNCHANGED <<files, cleaner, loader, rerun, ingestion, ingest, images>>

NextApi ==
    \/ Api_get_random_image
    \/ Api_get_random_with_location

SpecApi == InitApi /\ [][NextApi]_vars

(***************************************************************************)
(* The cleaning run on a raw file of ten records: nine distinct ones, of   *)
(* which three are portrait and one is 1800x1600, and a second record with *)
(* the identity of one of the five others.                                 *)
(***************************************************************************)
ScenarioRecord(id, w, ht) == WithId([Base EXCEPT !.width = w, !.height = ht], id)

ScenarioDistinct ==
    << ScenarioRecord("1", 2600, 2000), ScenarioRecord("6", 2000, 3000),
       ScenarioRecord("2", 1920, 1080), ScenarioRecord("9", 1800, 1600),
       ScenarioRecord("3", 3000, 2000), ScenarioRecord("7", 1920, 2880),
       ScenarioRecord("4", 4000, 2250), ScenarioRecord("5", 2560, 1440),
       ScenarioRecord("8", 2160, 3840) >>

\* s with its first k records moved to its end.
Rotate(s, k) == SubSeq(s, k + 1, Len(s)) \o SubSeq(s, 1, k)

\* s with x put at position p.
Insert(s, p, x) == SubSeq(s, 1, p - 1) \o <<x>> \o SubSeq(s, p, Len(s))

ScenarioBatches ==
    { Insert(Rotate(ScenarioDistinct, k), p, ScenarioRecord(id, 3840, 2160)) :
        k \in 0..(Len(ScenarioDistinct) - 1),
        p \in 1..(Len(ScenarioDistinct) + 1),
        id \in {"1", "2", "3", "4", "5"} }

InitScenario ==
    /\ raw_file \in ScenarioBatches
    /\ cleaned_file = [exists |-> FALSE, data |-> <<>>]
    /\ report_file = NoReport
    /\ pc = "load"
    /\ CleanerFresh
    /\ LoaderFresh
    /\ rerun = NoRerun
    /\ IngestionFresh
    /\ IngestFresh
    /\ ApiFresh

SpecScenario == InitScenario /\ [][Next]_vars

(***************************************************************************)
(* The cleaning run on raw files whose records lack a dimension, have a    *)
(* height that is not positive, or lack one of the other required fields.  *)
(***************************************************************************)
GateRecords ==
    { WithId(Base, "a"),
      WithId(Without(Base, "width"), "b"),
      WithId(Without(Base, "height"), "c"),
      WithId([Base EXCEPT !.height = -1], "d"),
      WithId(Without([Base EXCEPT !.height = -1], "width"), "e"),
      WithId([Base EXCEPT !.photographer_name = ""], "f"),
      WithId(Base, ""),
      WithId([Base EXCEPT !.width = 1920, !.height = 1080, !.image_url = None], "g") }

InitGates ==
    /\ raw_file \in SeqsUpTo(GateRecords, MaxLen)
    /\ cleaned_file = [exists |-> FALSE, data |-> <<>>]
    /\ report_file = NoReport
    /\ pc = "load"
    /\ CleanerFresh
    /\ LoaderFresh
    /\ rerun = NoRerun
    /\ IngestionFresh
    /\ IngestFresh
    /\ ApiFresh

SpecGates == InitGates /\ [][Next]_vars

(***************************************************************************)
(* main of ingest.py: the loop over the search queries.  The source has    *)
(* 47 queries, pages of 10 images and a target of 300; the model runs the  *)
(* same loop on fewer queries, smaller pages and a lower target, so that   *)
(* runs that reach the target and runs that run out of queries both occur. *)
(***************************************************************************)
MaxQueries == 3

per_page == 2

target_images == 3

\* The search queries, by their position in the list.
SEARCH_QUERIES == [i \in 1..MaxQueries |-> i]

InitIngest ==
    /\ raw_file = <<>>
    /\ cleaned_file = [exists |-> FALSE, data |-> <<>>]
    /\ report_file = NoReport
    /\ pc = "load"
    /\ CleanerFresh
    /\ LoaderFresh
    /\ rerun = NoRerun
    /\ IngestFresh
    /\ ApiFresh
    /\ ipc = "start"
    /\ ierr = ""
    /\ searched = <<>>
    /\ remaining = 0
    /\ all_metadata = <<>>
    /\ images_downloaded = 0
    /\ metadata_file = [exists |-> FALSE, data |-> <<>>]

\* Lines 328-338: without an access key main returns at once.
Ingest_start ==
    /\ ipc = "start"
    /\ \E key \in BOOLEAN : ipc' = IF key THEN "query" ELSE "returned"
    /\ UNCHANGED <<files, cleaner, loader, rerun, ingest, api, ierr, searched, remaining,
                   all_metadata, images_downloaded, metadata_file>>

\* The head of "for query in SEARCH_QUERIES" and fetch_images (lines
\* 340-345): the page holds up to per_page images, none when the request
\* failed.  With no image the inner loop is over at once and line 373 is
\* evaluated.
Ingest_fetch_images ==
    /\ ipc = "query"
    /\ IF Len(searched) = Len(SEARCH_QUERIES)
       THEN ipc' = "save" /\ UNCHANGED <<searched, remaining>>
       ELSE /\ searched' = Append(searched, SEARCH_QUERIES[Len(searched) + 1])
            /\ \E n \in 0..per_page :
                  /\ remaining' = n
                  /\ ipc' = IF n > 0 THEN "image"
                            ELSE IF images_downloaded >= target_images THEN "save"
                            ELSE "query"
    /\ UNCHANGED <<files, cleaner, loader, rerun, ingest, api, ierr, all_metadata,
                   images_downloaded, metadata_file>>

\* The body of "for img in images" without its test of the target: the
\* page is always worked through to its end.
Ingest_process_image_no_break ==
    /\ ipc = "image"
    /\ \E success \in BOOLEAN :
          /\ images_downloaded' = IF success THEN images_downloaded + 1
                                  ELSE images_downloaded
          /\ all_metadata' =
                Append(all_metadata,
                       [query |-> searched[Len(searched)],
                        downloaded |-> IF success THEN 1 ELSE 0])
    /\ remaining' = remaining - 1
    /\ ipc' = IF remaining' > 0 THEN "image" ELSE "query"
    /\ UNCHANGED <<files, cleaner, loader, rerun, ingest, api, ierr, searched,
                   metadata_file>>

\* One iteration of "for img in images" (lines 348-371), and when it is the
\* last of the page or breaks, the test of line 373.  parse_image_metadata
\* raises on an image that lacks a field it indexes; download_image
\* returns True or False.
Ingest_process_image ==
    /\ ipc = "image"
    /\ \/ /\ ipc' = "error"
          /\ ierr' = "KeyError"
          /\ UNCHANGED <<remaining, all_metadata, images_downloaded>>
       \/ \E success \in BOOLEAN :
             /\ images_downloaded' = IF success THEN images_downloaded + 1
                                     ELSE images_downloaded
             /\ all_metadata' =
                   Append(all_metadata,
                          [query |-> searched[Len(searched)],
                           downloaded |-> IF success THEN 1 ELSE 0])
             /\ IF images_downloaded' >= target_images
                THEN remaining' = 0 /\ ipc' = "save"
                ELSE /\ remaining' = remaining - 1
                     /\ ipc' = IF remaining' > 0 THEN "image" ELSE "query"
             /\ ierr' = ierr
    /\ UNCHANGED <<files, cleaner, loader, rerun, ingest, api, searched, metadata_file>>

\* Lines 378-405: the metadata is saved, then the location coverage is
\* printed, which divides by len(all_metadata).
Ingest_save ==
    /\ ipc = "save"
    /\ metadata_file' = [exists |-> TRUE, data |-> all_metadata]
    /\ IF all_metadata = <<>>
       THEN ipc' = "error" /\ ierr' = "ZeroDivisionError"
       ELSE ipc' = "done" /\ ierr' = ierr
    /\ UNCHANGED <<files, cleaner, loader, rerun, ingest, api, searched, remaining,
                   all_metadata, images_downloaded>>

NextIngest ==
    \/ Ingest_start
    \/ Ingest_fetch_images
    \/ Ingest_process_image
    \/ Ingest_save

\* Every step of main ends: the requests have timeouts and the lists are
\* finite, so main is not stopped for ever at a step it can take.
SpecIngest == InitIngest /\ [][NextIngest]_vars /\ WF_vars(NextIngest)

TypeOK ==
    /\ pc \in {"load", "analyze", "dedup", "validate", "enhance", "save", "report",
               "summary", "done", "error", "call", "returned"}
    /\ err \in {"", "KeyError", "ZeroDivisionError", "OSError"}
    /\ lpc \in {"idle", "load", "insert", "commit", "done", "error"}
    /\ Range(raw_data) \subseteq DOMAIN heap
    /\ Range(unique_data) \subseteq Range(raw_data)
    /\ Range(valid_data) \subseteq Range(unique_data)

(***************************************************************************)
(* Properties                                                              *)
(***************************************************************************)
Did(step) == step \in Range(stages)

\* The identity of the record a reference points to.
IdOf(ref) == heap[ref]["id"]

IdsIn(data) == { IdOf(data[i]) : i \in DOMAIN data }

Occurrences(data, id) == Cardinality({ i \in DOMAIN data : IdOf(data[i]) = id })

\* C1: what remove_duplicates returns is no longer than its input, and
\* every identity of the input occurs in it exactly once (and no other).
C1_DedupEachIdentityOnce ==
    Did("dedup") =>
        /\ Len(unique_data) <= Len(raw_data)
        /\ IdsIn(unique_data) = IdsIn(raw_data)
        /\ \A id \in IdsIn(raw_data) : Occurrences(unique_data, id) = 1

\* A run in which remove_duplicates dropped a record and kept two.
C1_Witness ==
    /\ Did("dedup")
    /\ Len(unique_data) = 2
    /\ Len(raw_data) = 3

\* C2: the record kept for an identity is the first of the input with that
\* identity, and the kept records are in the order of the input.
C2_DedupKeepsFirstInOrder ==
    Did("dedup") =>
        /\ \A k \in DOMAIN unique_data :
             \E p \in DOMAIN raw_data :
                /\ raw_data[p] = unique_data[k]
                /\ \A j \in 1..(p - 1) : IdOf(raw_data[j]) # IdOf(raw_data[p])
        /\ \A k1, k2 \in DOMAIN unique_data :
             k1 < k2 =>
                \E p1, p2 \in DOMAIN raw_data :
                   p1 < p2 /\ raw_data[p1] = unique_data[k1] /\ raw_data[p2] = unique_data[k2]

\* A run whose input repeats an identity with a different record, the
\* repeated identity first, another identity between the two.
C2_Witness ==
    /\ Did("dedup")
    /\ Len(raw_data) = 3
    /\ IdOf(raw_data[1]) = IdOf(raw_data[3])
    /\ heap[raw_data[1]] # heap[raw_data[3]]
    /\ IdOf(raw_data[2]) # IdOf(raw_data[1])
    /\ unique_data = <<raw_data[1], raw_data[2]>>

\* The five rules as the specification words them, in its order.
GateOrder ==
    <<"failed_download", "failed_orientation", "failed_aspect_ratio",
      "failed_resolution", "failed_missing_fields">>

Fails(item, rule) ==
    LET w == Get(item, "width", 0)
        ht == Get(item, "height", 0)
    IN  CASE rule = "failed_download" -> Get(item, "downloaded", 0) # 1
          [] rule = "failed_orientation" -> ~(w > ht)
          [] rule = "failed_aspect_ratio" ->
                ~(ht > 0 /\ MIN_RATIO_DEN * w >= MIN_RATIO_NUM * ht)
          [] rule = "failed_resolution" -> ~(w >= MIN_WIDTH)
          [] rule = "failed_missing_fields" ->
                \E f \in {"id", "image_url", "photographer_name", "width", "height"} :
                   ~Truthy(item, f)

\* The earliest rule of GateOrder the record fails, or "passed".
FirstFailing(item) ==
    IF \A k \in DOMAIN GateOrder : ~Fails(item, GateOrder[k]) THEN "passed"
    ELSE GateOrder[CHOOSE k \in DOMAIN GateOrder :
                      /\ Fails(item, GateOrder[k])
                      /\ \A j \in 1..(k - 1) : ~Fails(item, GateOrder[j])]

\* The sub-list of data whose records satisfy "passed".
RECURSIVE PassedOf(_)
PassedOf(data) ==
    IF data = <<>> THEN <<>>
    ELSE IF FirstFailing(heap[Head(data)]) = "passed"
         THEN <<Head(data)>> \o PassedOf(Tail(data))
         ELSE PassedOf(Tail(data))

\* C3: every record is counted under exactly one outcome, the earliest rule
\* it fails in the order download, orientation, aspect ratio, resolution,
\* completeness; it is accepted only when it fails none.
C3_FirstFailingGateWins ==
    Did("validate") =>
        /\ \A k \in DOMAIN GateOrder :
             validation_stats[GateOrder[k]] =
                Cardinality({ i \in DOMAIN unique_data :
                                FirstFailing(heap[unique_data[i]]) = GateOrder[k] })
        /\ valid_data = PassedOf(unique_data)

\* A downloaded record with width <= height and width < 1920 was validated,
\* and counted under orientation alone.
C3_Witness ==
    /\ Did("validate")
    /\ \E i \in DOMAIN unique_data :
         /\ ~Fails(heap[unique_data[i]], "failed_download")
         /\ Fails(heap[unique_data[i]], "failed_orientation")
         /\ Fails(heap[unique_data[i]], "failed_resolution")
    /\ validation_stats["failed_orientation"] = 1
    /\ validation_stats["failed_resolution"] = 0
    /\ Len(valid_data) = 1

\* C4: every accepted record was downloaded, is wider than high, has at
\* least the minimum ratio and the minimum width, and every required field
\* truthy.
C4_AcceptedRecordsMeetEveryRule ==
    Did("validate") =>
        \A i \in DOMAIN valid_data :
           LET item == heap[valid_data[i]]
           IN  /\ item["downloaded"] = 1
               /\ item["width"] > item["height"]
               /\ MIN_RATIO_DEN * item["width"] >= MIN_RATIO_NUM * item["height"]
               /\ item["width"] >= MIN_WIDTH
               /\ \A f \in {"id", "image_url", "photographer_name", "width", "height"} :
                     Truthy(item, f)

\* Accepted: a record of exactly the minimum ratio and one of exactly the
\* minimum width.
C4_Witness ==
    /\ Did("validate")
    /\ \E i \in DOMAIN valid_data :
         MIN_RATIO_DEN * heap[valid_data[i]]["width"]
            = MIN_RATIO_NUM * heap[valid_data[i]]["height"]
    /\ \E i \in DOMAIN valid_data : heap[valid_data[i]]["width"] = MIN_WIDTH

UniqueIds(records) ==
    \A i, j \in DOMAIN records : i # j => records[i]["id"] # records[j]["id"]

\* C6: no two records handed to save_cleaned_data, and then to
\* insert_images, have the same identity.
C6_PersistedIdentitiesUnique ==
    /\ Did("enhance") => UniqueIds(Deref(heap, cleaned_data))
    /\ UniqueIds(cleaned_file.data)
    /\ UniqueIds(batch)

\* insert_images was given two records, from an input in which an accepted
\* record had a duplicate that would have been accepted too.
C6_Witness ==
    /\ lpc = "commit"
    /\ Len(batch) = 2
    /\ \E i \in DOMAIN raw_data :
         /\ raw_data[i] \notin Range(unique_data)
         /\ FirstFailing(heap[raw_data[i]]) = "passed"

\* insert_images has returned.
Inserted == lpc \in {"commit", "done"} \/ (lpc = "error" /\ lerr = "TypeError")

NoRepeats(s) == \A i, j \in DOMAIN s : i # j => s[i] # s[j]

\* C7: a rejection by the store is counted in skipped and does not end the
\* batch: every record is attempted, inserted + skipped is the size of the
\* batch, and the store holds each identity once.
C7_RejectionsCountedNotFatal ==
    Inserted =>
        /\ attempted = Len(batch)
        /\ inserted + skipped = Len(batch)
        /\ skipped = Cardinality({ i \in DOMAIN batch :
                                     batch[i]["id"] \in Range(rows_before) })
        /\ Len(rows) = Len(rows_before) + inserted
        /\ \A i \in DOMAIN batch : batch[i]["id"] \in Range(rows)
        /\ NoRepeats(rows)

\* The first record of the batch was rejected and a later one inserted.
C7_Witness ==
    /\ lpc = "commit"
    /\ Len(batch) = 2
    /\ batch[1]["id"] \in Range(rows_before)
    /\ skipped = 1
    /\ inserted = 1

\* C8: a failure of generate_report does not end the run: main goes on to
\* its summary, and the cleaned metadata stays as saved.
C8_ReportFailureSwallowed ==
    [][pc = "report" => (pc' = "summary" /\ cleaned_file' = cleaned_file)]_vars

InPercent(tenths) == tenths \in 0..1000

\* C9: every percentage is within 0..100, and no batch makes a division by
\* zero.
C9_PercentagesSafe ==
    /\ \A k \in DOMAIN printed : InPercent(printed[k])
    /\ InPercent(report_file.data_quality)
    /\ InPercent(summary.data_quality)
    /\ err # "ZeroDivisionError"

\* C10: a run whose stages all completed prints its summary and ends
\* normally, however many records were rejected.
C10_CompletedRunEndsNormally ==
    (Did("report") /\ pc \in {"done", "error"}) => (pc = "done" /\ summary.printed)

\* The steps of main in the order of its calls; Loaded, Deduplicated,
\* Validated, Enriched, Persisted, Reported are load, dedup, validate,
\* enhance, save, report.
MainOrder ==
    <<"load", "analyze", "dedup", "validate", "enhance", "save", "report", "summary">>

IsPrefix(s, t) == Len(s) <= Len(t) /\ \A i \in DOMAIN s : s[i] = t[i]

\* Each stage worked on what the stage before it produced.
ConsumesPrevious ==
    /\ Did("load") => (heap \in [DOMAIN raw_file -> Records \cup Range(heap)]
                        /\ raw_data = [i \in DOMAIN raw_file |-> i])
    /\ Did("dedup") => Range(unique_data) \subseteq Range(raw_data)
    /\ Did("validate") => Range(valid_data) \subseteq Range(unique_data)
    /\ Did("enhance") => cleaned_data = valid_data
    /\ Did("save") => cleaned_file.data = Deref(heap, cleaned_data)
    /\ Did("report") => report_file.valid_images = Len(cleaned_data)

\* C11: the stages run in the order load, dedup, validate, enhance, save,
\* report, each once and each after the one before it finished, on the
\* output of the one before it; after a failure nothing more of the run
\* executes and no artifact is written.
C11_StagesInOrder ==
    /\ [](IsPrefix(stages, MainOrder) /\ ConsumesPrevious)
    /\ [][pc = "error" => UNCHANGED <<cleaner, files>>]_vars
    /\ [][stages' # stages =>
            \E k \in DOMAIN MainOrder :
               /\ pc = MainOrder[k]
               /\ stages = SubSeq(MainOrder, 1, k - 1)
               /\ stages' = SubSeq(MainOrder, 1, k)]_vars

\* A run that went through every stage, dropping a duplicate and rejecting
\* a record on the way.
C11_Witness ==
    /\ pc = "done"
    /\ stages = MainOrder
    /\ Len(raw_data) = 3
    /\ Len(unique_data) = 2
    /\ Len(cleaned_data) = 1
    /\ cleaned_file.exists
    /\ report_file.exists

\* Some record of the raw file has no 'id' key.
LacksIdentity == \E i \in DOMAIN raw_file : "id" \notin DOMAIN raw_file[i]

\* C12: when a raw record lacks the identity, wherever it is in the batch,
\* the run never gets to save_cleaned_data or generate_report, neither
\* artifact is written, and the run ends with an error.
C12_MissingIdentityAborts ==
    LacksIdentity =>
        /\ ~cleaned_file.exists
        /\ ~report_file.exists
        /\ ~Did("save") /\ ~Did("report")
        /\ pc \in {"load", "analyze", "dedup", "validate", "enhance", "error"}
        /\ lpc \in {"done", "error"} => lerr = "FileNotFoundError"

\* A batch whose last record has no identity, after two well-formed ones:
\* KeyError ended the run and nothing was written.
C12_Witness ==
    /\ Len(raw_file) = 3
    /\ "id" \in DOMAIN raw_file[1]
    /\ "id" \in DOMAIN raw_file[2]
    /\ "id" \notin DOMAIN raw_file[3]
    /\ pc = "error"
    /\ err = "KeyError"
    /\ ~cleaned_file.exists

\* C13: the 'Duplicates removed' of the report and the 'Removed duplicates'
\* of the summary are the number of records remove_duplicates dropped,
\* len(input) - len(output).
C13_ReportedDuplicatesAreRemoved ==
    /\ report_file.exists =>
          report_file.duplicates_removed = Len(raw_data) - Len(unique_data)
    /\ summary.printed =>
          summary.removed_duplicates = Len(raw_data) - Len(unique_data)

\* The non-blank characters of a text, in order.
RECURSIVE NonBlank(_)
NonBlank(text) ==
    IF text = <<>> THEN <<>>
    ELSE IF Head(text) = " " THEN NonBlank(Tail(text))
         ELSE <<Head(text)>> \o NonBlank(Tail(text))

\* The number of words of a text: the places where a word starts.
WordCount(text) ==
    Cardinality({ i \in DOMAIN text :
                    text[i] # " " /\ (i = 1 \/ text[i - 1] = " ") })

\* after is before with its whitespace normalized: the same words, single
\* blanks between them, none at either end.
Normalized(before, after) ==
    /\ NonBlank(after) = NonBlank(before)
    /\ WordCount(after) = WordCount(before)
    /\ after # <<>> => (after[1] # " " /\ after[Len(after)] # " ")
    /\ \A i \in 1..(Len(after) - 1) : ~(after[i] = " " /\ after[i + 1] = " ")

Derived == {"aspect_ratio", "megapixels"}

\* C14: enhance_metadata returns the list it was given (as many records,
\* the same identities in the same order), and of a record it changes
\* nothing but aspect_ratio and megapixels, which it adds, and the
\* description, which it normalizes.
C14_EnhanceOnlyAugments ==
    pc = "returned" =>
        /\ cleaned_data = valid_data
        /\ Len(cleaned_data) = Len(raw_file)
        /\ \A i \in DOMAIN cleaned_data :
              LET before == raw_file[i]
                  after == heap[cleaned_data[i]]
              IN  /\ after["id"] = before["id"]
                  /\ DOMAIN before \subseteq DOMAIN after
                  /\ DOMAIN after \subseteq DOMAIN before \cup Derived
                  /\ \A k \in DOMAIN before \ {"description"} : after[k] = before[k]
                  /\ "description" \in DOMAIN before =>
                        Normalized(before["description"], after["description"])

\* enhance_metadata returned three records, one with a description it
\* rewrote, one with dimensions it could not use and one without a
\* description.
C14_Witness ==
    /\ pc = "returned"
    /\ Len(cleaned_data) = 3
    /\ heap[cleaned_data[1]]["description"] # raw_file[1]["description"]
    /\ "width" \notin DOMAIN raw_file[2]
    /\ "description" \notin DOMAIN raw_file[3]

\* The record has both dimensions, and neither is zero.
HasDimensions(item) ==
    /\ "width" \in DOMAIN item /\ item["width"] # 0
    /\ "height" \in DOMAIN item /\ item["height"] # 0

\* value is num/den rounded to a whole number.
IsRounded(value, num, den) ==
    /\ 2 * (value * den - num) <= den
    /\ 2 * (num - value * den) <= den

\* C15: enhance_metadata gives a record aspect_ratio and megapixels exactly
\* when the record has a width and a height that are both non-zero, and
\* neither of the two otherwise; they are width/height to two decimals and
\* width*height/1e6 to one.
C15_DerivedFieldsTogether ==
    pc = "returned" =>
        \A i \in DOMAIN cleaned_data :
           LET before == raw_file[i]
               after == heap[cleaned_data[i]]
           IN  /\ ("aspect_ratio" \in DOMAIN after) <=> HasDimensions(before)
               /\ ("megapixels" \in DOMAIN after) <=> HasDimensions(before)
               /\ HasDimensions(before) =>
                     /\ IsRounded(after["aspect_ratio"], 100 * before["width"],
                                  before["height"])
                     /\ IsRounded(after["megapixels"],
                                  before["width"] * before["height"], 100000)

\* One call on a record with both dimensions, one with a height of 0 and
\* one with no width: the first alone got the derived fields.
C15_Witness ==
    /\ pc = "returned"
    /\ Len(cleaned_data) = 3
    /\ Derived \subseteq DOMAIN heap[cleaned_data[1]]
    /\ HasDimensions(raw_file[1])
    /\ "height" \in DOMAIN raw_file[2] /\ raw_file[2]["height"] = 0
    /\ "width" \notin DOMAIN raw_file[3]
    /\ Derived \cap DOMAIN heap[cleaned_data[2]] = {}
    /\ Derived \cap DOMAIN heap[cleaned_data[3]] = {}

\* The positions of a keyword table whose keyword is a substring of str.
Hits(table, str) == { i \in DOMAIN table : Contains(table[i].keyword, str) }

\* The value at the first of those positions, None when there is none.
FirstHit(table, str) ==
    IF Hits(table, str) = {} THEN None
    ELSE table[CHOOSE i \in Hits(table, str) : \A j \in Hits(table, str) : i <= j].value

\* C16: extract_location_from_text returns the landmark of the first
\* landmark keyword, in table order, that is a substring of the lower-cased
\* text (None when there is none) with the country of the first such
\* country keyword (None when there is none), so a landmark is never given
\* up for a country; for an empty or absent text it returns (None, None).
C16_LandmarkThenCountry ==
    xpc = "text_returned" =>
        IF text_arg \in {NoText, <<>>} THEN extracted = <<None, None>>
        ELSE extracted = << FirstHit(landmarks, lower(text_arg)),
                            FirstHit(countries, lower(text_arg)) >>

\* A text naming two landmarks, the later of the table first, and a
\* country: the call returned the earlier landmark of the table and the
\* country.
C16_Witness ==
    /\ xpc = "text_returned"
    /\ text_arg # NoText
    /\ Cardinality(Hits(landmarks, lower(text_arg))) = 2
    /\ \E i, j \in Hits(landmarks, lower(text_arg)) :
          /\ i < j
          /\ SubSeq(lower(text_arg), 1, Len(landmarks[j].keyword)) = landmarks[j].keyword
    /\ Hits(countries, lower(text_arg)) # {}
    /\ extracted[1] # None
    /\ extracted[2] # None

\* The text extract_location parses: description or alt_description or ''.
TextOf(data) ==
    IF TextTruthy(data, "description") THEN data["description"]
    ELSE IF TextTruthy(data, "alt_description") THEN data["alt_description"]
    ELSE <<>>

\* The source supplied the field of the location object: it is there and
\* neither null nor empty.
Supplied(data, key) ==
    /\ "location" \in DOMAIN data
    /\ key \in DOMAIN data["location"]
    /\ data["location"][key] \notin {None, ""}

\* C17: the location_name returned is the name the source supplied, or
\* failing that its city, and the country returned is the country it
\* supplied; what was parsed from the text is returned only for a
\* component the source left empty.
C17_StructuredFieldsFirst ==
    (xpc = "location_returned" /\ xerr = "") =>
        LET parsed == extract_location_from_text(TextOf(image_data))
        IN  /\ Supplied(image_data, "name") =>
                  extracted[1] = image_data["location"]["name"]
            /\ (~Supplied(image_data, "name") /\ Supplied(image_data, "city")) =>
                  extracted[1] = image_data["location"]["city"]
            /\ Supplied(image_data, "country") =>
                  extracted[2] = image_data["location"]["country"]
            /\ (~Supplied(image_data, "name") /\ ~Supplied(image_data, "city")) =>
                  extracted[1] = parsed[1]
            /\ ~Supplied(image_data, "country") => extracted[2] = parsed[2]

\* The source supplied a name and no country, and the description names a
\* landmark and a country: the name of the source and the country of the
\* text were returned.
C17_Witness ==
    /\ xpc = "location_returned"
    /\ xerr = ""
    /\ Supplied(image_data, "name")
    /\ ~Supplied(image_data, "country")
    /\ extract_location_from_text(TextOf(image_data))[1] # None
    /\ extracted[1] = image_data["location"]["name"]
    /\ extracted[2] = extract_location_from_text(TextOf(image_data))[2]
    /\ extracted[2] # None

\* C20: for the description "Sunset over J<U+00F6>kuls<U+00E1>rl<U+00F3>n
\* glacier lagoon in Iceland", extract_location_from_text returns the
\* landmark of the glacier lagoon and the country Iceland.
C20_GlacierLagoonExample ==
    (xpc = "text_returned" /\ text_arg = GlacierLagoonDescription) =>
        extracted = <<"J<U+00F6>kuls<U+00E1>rl<U+00F3>n Glacier Lagoon", "Iceland">>

\* The row of the table a response was built from.
RowOf(response) == CHOOSE row \in images : row.id = response.id

\* The caption the specification gives a row.
ExpectedCaption(row) ==
    IF row.location_name # None /\ row.country # None
    THEN <<row.location_name, ", ", row.country>>
    ELSE IF row.location_name # None THEN <<row.location_name>>
    ELSE IF row.country # None THEN <<row.country>>
    ELSE <<None>>

\* C18: the caption either endpoint answers is "name, country" when the
\* row has both, the one it has when it has one, and null when it has
\* neither; for the same row the two endpoints answer the same caption.
C18_CaptionOfBothEndpoints ==
    /\ \A e \in {"random", "location"} :
          responses[e].status = 200 =>
             responses[e].caption = ExpectedCaption(RowOf(responses[e]))
    /\ (/\ responses.random.status = 200
        /\ responses.location.status = 200
        /\ responses.random.id = responses.location.id)
          => responses.random.caption = responses.location.caption

\* Both endpoints answered with the same row, which has a name and a
\* country, from a table that also holds a row with neither.
C18_Witness ==
    /\ responses.random.status = 200
    /\ responses.location.status = 200
    /\ responses.random.id = responses.location.id
    /\ Len(responses.location.caption) = 3
    /\ \E row \in images : row.location_name = None /\ row.country = None

\* A batch of ten records of which two share one identity, three have
\* width < height, one is 1800x1600, and which are valid otherwise: the
\* portrait ones fail nothing but what being portrait entails, and all the
\* others, the two of one identity among them, fail nothing.
IsScenario(records) ==
    LET portrait == { i \in DOMAIN records : records[i]["width"] < records[i]["height"] }
        square == { i \in DOMAIN records :
                      records[i]["width"] = 1800 /\ records[i]["height"] = 1600 }
        others == (DOMAIN records \ portrait) \ square
    IN  /\ Len(records) = 10
        /\ Cardinality({ records[i]["id"] : i \in DOMAIN records }) = 9
        /\ Cardinality(portrait) = 3
        /\ Cardinality(square) = 1
        /\ \A i \in others : FirstFailing(records[i]) = "passed"
        /\ \A i \in portrait :
              \A rule \in {"failed_download", "failed_resolution", "failed_missing_fields"} :
                 ~Fails(records[i], rule)
        /\ \E i, j \in others : i # j /\ records[i]["id"] = records[j]["id"]

\* C19: on such a batch remove_duplicates removes exactly 1 record,
\* validate_images counts 3 under failed_orientation, 1 under
\* failed_aspect_ratio and 0 under every other reason, and 5 records are
\* accepted and given to enhance_metadata.
C19_ScenarioCounts ==
    IsScenario(raw_file) =>
        /\ Did("dedup") => (duplicates_removed = 1 /\ Len(unique_data) = 9)
        /\ Did("validate") =>
              /\ validation_stats =
                    [failed_download |-> 0, failed_orientation |-> 3,
                     failed_aspect_ratio |-> 1, failed_resolution |-> 0,
                     failed_missing_fields |-> 0]
              /\ Len(valid_data) = 5
        /\ Did("enhance") =>
              /\ Len(cleaned_data) = 5
              /\ \A i \in DOMAIN cleaned_data :
                    Derived \subseteq DOMAIN heap[cleaned_data[i]]

\* The scenario ran through enrichment, the second record of the shared
\* identity being the last of the batch.
C19_Witness ==
    /\ IsScenario(raw_file)
    /\ Did("enhance")
    /\ \E i \in 1..9 : raw_file[i]["id"] = raw_file[10]["id"]
    /\ 10 \notin Range(unique_data)
    /\ Len(cleaned_data) = 5

\* The sum of the five failure counters.
FailedTotal(counters) ==
    counters["failed_download"] + counters["failed_orientation"]
      + counters["failed_aspect_ratio"] + counters["failed_resolution"]
      + counters["failed_missing_fields"]

\* C21: the five failure counters and the accepted records add up to what
\* validate_images was given, and the records remove_duplicates removed,
\* the five counters and the cleaned records add up to the raw batch.
C21_CountsConserved ==
    /\ Did("dedup") =>
          /\ duplicates_removed = Len(raw_data) - Len(unique_data)
          /\ duplicates_removed >= 0
    /\ Did("validate") =>
          FailedTotal(validation_stats) + Len(valid_data) = Len(unique_data)
    /\ Did("enhance") =>
          Len(raw_data) = duplicates_removed + FailedTotal(validation_stats)
                            + Len(cleaned_data)
    /\ Did("save") =>
          Len(raw_file) = duplicates_removed + FailedTotal(validation_stats)
                            + Len(cleaned_file.data)

\* A saved run of three records: one removed as a duplicate, one rejected
\* for its width, one cleaned.
C21_Witness ==
    /\ Did("save")
    /\ Len(raw_data) = 3
    /\ duplicates_removed = 1
    /\ validation_stats["failed_resolution"] = 1
    /\ Len(cleaned_file.data) = 1

\* C22: a record that gets past the download, orientation, aspect-ratio and
\* resolution checks has a width of at least 1920 and a positive height, so
\* it can fail the completeness check only on id, image_url or
\* photographer_name; and every record saved, and then loaded into the
\* store, carries aspect_ratio and megapixels.
C22_CompletenessOnlyOnThreeFields ==
    /\ Did("validate") =>
          \A i \in DOMAIN unique_data :
             LET item == heap[unique_data[i]]
             IN  gate(item) \in {"failed_missing_fields", "passed"} =>
                    /\ "width" \in DOMAIN item /\ item["width"] >= MIN_WIDTH
                    /\ "height" \in DOMAIN item /\ item["height"] > 0
                    /\ gate(item) = "failed_missing_fields" =>
                          \E f \in {"id", "image_url", "photographer_name"} :
                             ~Truthy(item, f)
    /\ Did("validate") =>
          validation_stats["failed_missing_fields"] =
             Cardinality({ i \in DOMAIN unique_data :
                             /\ \A rule \in {"failed_download", "failed_orientation",
                                             "failed_aspect_ratio", "failed_resolution"} :
                                   ~Fails(heap[unique_data[i]], rule)
                             /\ \E f \in {"id", "image_url", "photographer_name"} :
                                   ~Truthy(heap[unique_data[i]], f) })
    /\ \A i \in DOMAIN cleaned_file.data : Derived \subseteq DOMAIN cleaned_file.data[i]
    /\ \A i \in DOMAIN batch : Derived \subseteq DOMAIN batch[i]

\* A batch with a record without a height, rejected for its ratio, a
\* record without a photographer, rejected as incomplete, and a record
\* that was saved with its derived fields and loaded.
C22_Witness ==
    /\ lpc = "commit"
    /\ Len(batch) = 1
    /\ Derived \subseteq DOMAIN batch[1]
    /\ \E i \in DOMAIN raw_file : "height" \notin DOMAIN raw_file[i]
    /\ validation_stats["failed_aspect_ratio"] = 1
    /\ validation_stats["failed_missing_fields"] = 1

\* The number of collected records whose downloaded flag is 1.
DownloadedRecords ==
    Cardinality({ i \in DOMAIN all_metadata : all_metadata[i].downloaded = 1 })

IngestEnded == ipc \in {"done", "error", "returned"}

\* C23: in the loop of main of ingest.py images_downloaded is the number of
\* collected records flagged downloaded and is never above target_images;
\* once it is at the target nothing more is fetched, parsed or downloaded;
\* each query is fetched at most once, in the order of the list, and main
\* ends.
C23_IngestionLoopBounded ==
    /\ [](/\ images_downloaded = DownloadedRecords
          /\ images_downloaded <= target_images
          /\ IsPrefix(searched, SEARCH_QUERIES)
          /\ Len(all_metadata) <= per_page * Len(searched))
    /\ [][images_downloaded >= target_images =>
             /\ searched' = searched
             /\ all_metadata' = all_metadata
             /\ images_downloaded' = images_downloaded
             /\ ipc' \notin {"query", "image"}]_vars
    /\ <>IngestEnded

\* main ended with the target reached before the last query, a download
\* having failed on the way.
C23_Witness ==
    /\ ipc = "done"
    /\ images_downloaded = target_images
    /\ Len(all_metadata) > target_images
    /\ Len(searched) < Len(SEARCH_QUERIES)
    /\ metadata_file.data = all_metadata

====
